---- MODULE Spec2Model ----
(***************************************************************************)
(* BetterTelnet (main.go): the Telnet protocol filter TelnetReader.Read    *)
(* on top of a bufio.Reader over the TCP connection, the io.Copy pump that *)
(* drives it, and the process skeleton of main() and handleSignals().      *)
(***************************************************************************)
EXTENDS Integers, Sequences, FiniteSets, TLC

(* ---- Telnet protocol constants (main.go 19-27) ---- *)
IAC == 255
DONT == 254
DO == 253
WONT == 252
WILL == 251
SB == 250
SE == 240

(* ---- bounds of the model ---- *)
MaxLen == 3
MaxCap == 2
MaxPayload == 2
MaxPairs == 3
MaxBody == 4

(* The raw bytes the server may send: ESC (27) as text, 241 (NOP) as a    *)
(* command without a case of its own, and the command bytes the decoder   *)
(* tests for (each of them is text too when no IAC precedes it).          *)
Bytes == {27, 241, SE, SB, DO, IAC}

(* Errors a read of the connection can return (io.EOF or a failure).      *)
SrcErrors == {"EOF", "ECONNRESET"}

(* The error of a read of a connection this process has closed.           *)
ErrClosed == "ECLOSED"
\* an error of the source after which a later read can succeed
ErrTimeout == "ETIMEDOUT"

(* Longer streams, next to every stream of up to MaxLen bytes: the        *)
(* end-to-end scenario shortened to "H" IAC WILL 1 " " IAC IAC "!", a     *)
(* negotiation before text, a subnegotiation before text, and a           *)
(* subnegotiation with an escaped IAC in front of an SE.                   *)
Streams == {<<72, IAC, WILL, 1, 32, IAC, IAC, 33>>,
            <<IAC, DO, 1, 65>>,
            <<IAC, SB, 24, 0, IAC, SE, 89>>,
            <<IAC, SB, IAC, IAC, SE, 65, IAC, SE, 66>>}

(* The streams of the runs of the whole process: none, text around an     *)
(* escaped 255, a negotiation before text, a subnegotiation before text.  *)
MainInputs == {<<>>, <<27, IAC, IAC>>, <<IAC, DO, 27>>, <<IAC, SB, IAC, SE, 27>>}

RECURSIVE SeqsUpTo(_)
SeqsUpTo(k) ==
    IF k = 0 THEN {<<>>}
    ELSE LET S == SeqsUpTo(k - 1)
         IN S \cup {Append(s, b) : s \in {t \in S : Len(t) = k - 1}, b \in Bytes}

\* every sequence of up to k elements of S
RECURSIVE SeqsOver(_, _)
SeqsOver(S, k) ==
    IF k = 0 THEN {<<>>}
    ELSE LET T == SeqsOver(S, k - 1)
         IN T \cup {Append(s, b) : s \in {t \in T : Len(t) = k - 1}, b \in S}

\* k times IAC IAC
RECURSIVE Escapes(_)
Escapes(k) == IF k = 0 THEN <<>> ELSE <<IAC, IAC>> \o Escapes(k - 1)

(* Streams made of one control sequence and the byte after it.            *)
\* IAC <verb> <opt> X, for every verb and every option byte
NegInputs == {<<IAC, v, o, x>> : v \in {DO, DONT, WILL, WONT}, o \in 0..255,
                                x \in {65, IAC}}

\* IAC SB <payload> IAC SE Y, the payload without IAC
SubInputs == {<<IAC, SB>> \o pl \o <<IAC, SE, y>> :
                  pl \in SeqsOver({0, 24, SE}, MaxPayload), y \in {89, IAC}}
             \cup {<<IAC, SB, 24, 0, IAC, SE, 89>>}

\* k times IAC IAC, alone or before a text byte
EscInputs == {Escapes(k) \o t : k \in 1..MaxPairs, t \in {<<>>, <<65>>}}

\* IAC c X, for every command byte c without a case of its own
UnkInputs == {<<IAC, c, x>> : c \in 0..249, x \in {65, IAC}}

\* IAC SB and any bytes after it, IAC and SE among them
TermInputs == {<<IAC, SB>> \o b : b \in SeqsOver({65, IAC, SE}, MaxBody)}
              \cup {<<IAC, SB, IAC, IAC, SE, 65, IAC, SE, 66>>}

SeqInputs == NegInputs \cup SubInputs \cup EscInputs \cup UnkInputs \cup TermInputs

VARIABLES
    input,      \* the whole raw byte stream the server sends on this connection
    arrived,    \* how many of its bytes have reached the socket
    srcErr,     \* "none", or the error conn.Read returns once the socket is drained
    filled,     \* bufio.Reader: raw bytes read from conn so far   (b.w)
    rd,         \* bufio.Reader: raw bytes handed out by ReadByte  (b.r)
    fills,      \* bufio.Reader: reads of conn that returned bytes
    pc,         \* where pump A stands: "copy" between Read calls, or a ReadByte of Read
    p,          \* the destination slice of the Read call in progress, p[0..n)
    n,          \* the named result n of the Read call in progress
    cap,        \* len(p) of the Read call in progress
    retN,       \* n of the last return of Read, until io.Copy calls again
    retErr,     \* err of that return ("nil" or an error)
    retLine,    \* the source line of that return (0: none, or a call in progress)
    srcFails,   \* failed reads of the source within the Read call in progress
    out,        \* bytes io.Copy has written to outputWriter
    copyDone,   \* io.Copy of pump A has ended
    pcMain,     \* where main() stands
    pcB,        \* where pump B (keyboard -> network) stands
    pcSig,      \* where the goroutine of handleSignals stands
    errChan,    \* number of errors buffered in errChan (capacity 1)
    connOpen,   \* the TCP connection is open
    rawMode,    \* the terminal is in raw mode
    restores,   \* how many times term.Restore has run
    connCloses, \* how many times conn.Close has run
    logOpen,    \* a log file is open
    logCloses,  \* how many times f.Close has run
    exited      \* "no", or the way the process has exited

readerVars == <<input, arrived, srcErr, filled, rd, fills, pc, p, n, cap,
                retN, retErr, retLine, srcFails, out, copyDone>>
mainVars == <<pcMain, pcB, pcSig, errChan, connOpen, rawMode, restores,
              connCloses, logOpen, logCloses, exited>>
vars == <<input, arrived, srcErr, filled, rd, fills, pc, p, n, cap,
          retN, retErr, retLine, srcFails, out, copyDone,
          pcMain, pcB, pcSig, errChan, connOpen, rawMode, restores,
          connCloses, logOpen, logCloses, exited>>

(* ---- bufio.Reader over the connection ---- *)

\* t.reader.Buffered(): bytes read from conn and not yet handed out
Buffered == filled - rd

\* ReadByte returns a byte: one is buffered, or fill() gets some from conn
ByteReady == rd < arrived

\* ReadByte returns an error: nothing buffered, conn.Read fails
ReadFails == rd = arrived /\ srcErr # "none"

\* the byte ReadByte returns
NextByte == input[rd + 1]

\* the state of the bufio.Reader after a successful ReadByte: fill() takes
\* whatever the socket holds when the buffer is empty
ConsumeByte ==
    /\ rd' = rd + 1
    /\ filled' = IF rd < filled THEN filled ELSE arrived
    /\ fills' = IF rd < filled THEN fills ELSE fills + 1

\* Buffered() right after that ReadByte
BufferedAfter == (IF rd < filled THEN filled ELSE arrived) - (rd + 1)

(* ---- TelnetReader.Read (main.go 176-226) ---- *)

\* line 183 testing for the range of the command bytes instead of IAC
IsIAC_Range(b) == b >= SE

\* line 183
IsIAC(b) == b = IAC

\* line 192 with the test for DO left out
IsNegotiation_NoDO(cmd) == cmd = DONT \/ cmd = WILL \/ cmd = WONT

\* line 192 taking every command byte from SE up for a negotiation verb
IsNegotiation_AnyCommand(cmd) == cmd >= SE

\* line 192
IsNegotiation(cmd) == cmd = DO \/ cmd = DONT \/ cmd = WILL \/ cmd = WONT

\* line 177, the loop condition
LoopCond(nn, c) == nn < c

\* line 221 without the test of n
FlushCheck_AnyN(buffered, nn) == buffered = 0

\* line 221 with the test of Buffered() inverted
FlushCheck_Inverted(buffered, nn) == buffered # 0 /\ nn > 0

\* line 221, the flush test
FlushCheck(buffered, nn) == buffered = 0 /\ nn > 0

\* io.Copy: what it writes after Read returned (nr, er), and whether it stops
Return(pp, nn, err, line) ==
    /\ retN' = nn
    /\ retErr' = err
    /\ retLine' = line
    /\ out' = out \o SubSeq(pp, 1, nn)
    /\ copyDone' = (err # "nil")
    /\ p' = <<>> /\ n' = 0
    /\ pc' = "copy"

\* a failed read that is tried again instead of returned
FailAt_Retry(line) ==
    /\ ReadFails
    /\ srcFails' = srcFails + 1
    /\ UNCHANGED <<filled, rd, fills, p, n, pc, retN, retErr, retLine, out,
                   copyDone>>

\* a failed read inside a control sequence that hands the pending IAC out
\* as text before it returns the error
FailAt_EmitPending(line) ==
    /\ ReadFails
    /\ srcFails' = srcFails + 1
    /\ UNCHANGED <<filled, rd, fills>>
    /\ IF line # 180 /\ n < cap
       THEN Return(Append(SubSeq(p, 1, n), IAC), n + 1, srcErr, line)
       ELSE Return(p, n, srcErr, line)

\* a failed read that returns 0, err whatever n is
FailAt_DropsN(line) ==
    /\ ReadFails
    /\ srcFails' = srcFails + 1
    /\ UNCHANGED <<filled, rd, fills>>
    /\ Return(p, 0, srcErr, line)

\* a read of the source failed at `line`: return n, err
FailAt(line) ==
    /\ ReadFails
    /\ srcFails' = srcFails + 1
    /\ UNCHANGED <<filled, rd, fills>>
    /\ Return(p, n, srcErr, line)

\* lines 221-225 and the loop condition, with p[0..nn) = pp emitted so far
LoopEnd(pp, nn) ==
    IF FlushCheck(BufferedAfter, nn) \/ ~LoopCond(nn, cap)
    THEN Return(pp, nn, "nil", 225)
    ELSE /\ pc' = "L178"
         /\ p' = pp /\ n' = nn
         /\ UNCHANGED <<retN, retErr, retLine, out, copyDone>>

\* p after p[n] = b
Emit(b) == Append(SubSeq(p, 1, n), b)

Running == exited = "no" /\ ~copyDone

\* io.Copy calls Read with its buffer
CallRead(c) ==
    /\ Running /\ pc = "copy"
    /\ cap' = c /\ n' = 0 /\ p' = <<>> /\ srcFails' = 0
    /\ retN' = 0 /\ retErr' = "nil" /\ retLine' = 0
    /\ pc' = "L178"
    /\ UNCHANGED <<input, arrived, srcErr, filled, rd, fills, out, copyDone>>
    /\ UNCHANGED mainVars

\* line 178: b, err := t.reader.ReadByte()
ReadL178 ==
    /\ Running /\ pc = "L178"
    /\ \/ FailAt(180)
       \/ /\ ByteReady
          /\ ConsumeByte
          /\ UNCHANGED srcFails
          /\ IF IsIAC(NextByte)
             THEN /\ pc' = "L184"
                  /\ UNCHANGED <<p, n, retN, retErr, retLine, out, copyDone>>
             ELSE LoopEnd(Emit(NextByte), n + 1)
    /\ UNCHANGED <<input, arrived, srcErr, cap>>
    /\ UNCHANGED mainVars

\* line 184 preceded by a flush test: with bytes emitted and nothing
\* buffered the call returns, and the IAC it has consumed is forgotten
ReadL184_FlushLosesIAC ==
    /\ Running /\ pc = "L184"
    /\ IF Buffered = 0 /\ n > 0
       THEN /\ UNCHANGED <<filled, rd, fills, srcFails>>
            /\ Return(p, n, "nil", 225)
       ELSE \/ FailAt(186)
            \/ /\ ByteReady
               /\ ConsumeByte
               /\ UNCHANGED srcFails
               /\ IF NextByte = IAC
                  THEN LoopEnd(Emit(IAC), n + 1)
                  ELSE /\ UNCHANGED <<p, n>>
                       /\ pc' = IF IsNegotiation(NextByte) THEN "L193"
                                ELSE IF NextByte = SB THEN "L199" ELSE "L178"
                       /\ UNCHANGED <<retN, retErr, retLine, out, copyDone>>
    /\ UNCHANGED <<input, arrived, srcErr, cap>>
    /\ UNCHANGED mainVars

\* line 184 without the case cmd == IAC of line 189: IAC IAC is ignored
\* like any other two-byte command
ReadL184_NoEscape ==
    /\ Running /\ pc = "L184"
    /\ \/ FailAt(186)
       \/ /\ ByteReady
          /\ ConsumeByte
          /\ UNCHANGED <<srcFails, p, n, retN, retErr, retLine, out, copyDone>>
          /\ pc' = IF IsNegotiation(NextByte) THEN "L193"
                   ELSE IF NextByte = SB THEN "L199" ELSE "L178"
    /\ UNCHANGED <<input, arrived, srcErr, cap>>
    /\ UNCHANGED mainVars

\* line 184: cmd, err := t.reader.ReadByte()
ReadL184 ==
    /\ Running /\ pc = "L184"
    /\ \/ FailAt(186)
       \/ /\ ByteReady
          /\ ConsumeByte
          /\ UNCHANGED srcFails
          /\ IF NextByte = IAC
             THEN LoopEnd(Emit(IAC), n + 1)
             ELSE /\ UNCHANGED <<p, n>>
                  /\ IF IsNegotiation(NextByte)
                     THEN /\ pc' = "L193"
                          /\ UNCHANGED <<retN, retErr, retLine, out, copyDone>>
                     ELSE IF NextByte = SB
                     THEN /\ pc' = "L199"
                          /\ UNCHANGED <<retN, retErr, retLine, out, copyDone>>
                     ELSE \* continue: back to the loop condition, n unchanged
                          /\ pc' = "L178"
                          /\ UNCHANGED <<retN, retErr, retLine, out, copyDone>>
    /\ UNCHANGED <<input, arrived, srcErr, cap>>
    /\ UNCHANGED mainVars

\* line 193 looking at the option byte: an IAC there starts a new command
ReadL193_OptionIAC ==
    /\ Running /\ pc = "L193"
    /\ \/ FailAt(195)
       \/ /\ ByteReady
          /\ ConsumeByte
          /\ UNCHANGED srcFails
          /\ IF NextByte = IAC
             THEN /\ pc' = "L184"
                  /\ UNCHANGED <<p, n, retN, retErr, retLine, out, copyDone>>
             ELSE LoopEnd(p, n)
    /\ UNCHANGED <<input, arrived, srcErr, cap>>
    /\ UNCHANGED mainVars

\* line 193: _, err = t.reader.ReadByte()
ReadL193 ==
    /\ Running /\ pc = "L193"
    /\ \/ FailAt(195)
       \/ /\ ByteReady
          /\ ConsumeByte
          /\ UNCHANGED srcFails
          /\ LoopEnd(p, n)
    /\ UNCHANGED <<input, arrived, srcErr, cap>>
    /\ UNCHANGED mainVars

\* line 199 ending the subnegotiation at an SE without an IAC before it
ReadL199_BareSE ==
    /\ Running /\ pc = "L199"
    /\ \/ FailAt(201)
       \/ /\ ByteReady
          /\ ConsumeByte
          /\ UNCHANGED srcFails
          /\ IF NextByte = SE
             THEN LoopEnd(p, n)
             ELSE /\ pc' = IF NextByte = IAC THEN "L204" ELSE "L199"
                  /\ UNCHANGED <<p, n, retN, retErr, retLine, out, copyDone>>
    /\ UNCHANGED <<input, arrived, srcErr, cap>>
    /\ UNCHANGED mainVars

\* line 199: sbBytes, err := t.reader.ReadByte()
ReadL199 ==
    /\ Running /\ pc = "L199"
    /\ \/ FailAt(201)
       \/ /\ ByteReady
          /\ ConsumeByte
          /\ UNCHANGED <<srcFails, p, n, retN, retErr, retLine, out, copyDone>>
          /\ pc' = IF NextByte = IAC THEN "L204" ELSE "L199"
    /\ UNCHANGED <<input, arrived, srcErr, cap>>
    /\ UNCHANGED mainVars

\* line 204 taking an IAC after an IAC for the start of the terminator
ReadL204_Rescan ==
    /\ Running /\ pc = "L204"
    /\ \/ FailAt(206)
       \/ /\ ByteReady
          /\ ConsumeByte
          /\ UNCHANGED srcFails
          /\ IF NextByte = SE
             THEN LoopEnd(p, n)
             ELSE /\ pc' = IF NextByte = IAC THEN "L204" ELSE "L199"
                  /\ UNCHANGED <<p, n, retN, retErr, retLine, out, copyDone>>
    /\ UNCHANGED <<input, arrived, srcErr, cap>>
    /\ UNCHANGED mainVars

\* line 204: next, err := t.reader.ReadByte()
ReadL204 ==
    /\ Running /\ pc = "L204"
    /\ \/ FailAt(206)
       \/ /\ ByteReady
          /\ ConsumeByte
          /\ UNCHANGED srcFails
          /\ IF NextByte = SE
             THEN LoopEnd(p, n)
             ELSE /\ pc' = "L199"
                  /\ UNCHANGED <<p, n, retN, retErr, retLine, out, copyDone>>
    /\ UNCHANGED <<input, arrived, srcErr, cap>>
    /\ UNCHANGED mainVars

(* ---- the connection, seen from the client ---- *)

\* k more bytes of the stream reach the socket
Deliver(k) ==
    /\ exited = "no" /\ connOpen /\ srcErr = "none"
    /\ arrived + k <= Len(input)
    /\ arrived' = arrived + k
    /\ UNCHANGED <<input, srcErr, filled, rd, fills, pc, p, n, cap, retN, retErr,
                   retLine, srcFails, out, copyDone>>
    /\ UNCHANGED mainVars

\* the stream ends after its last byte: the peer closes (EOF) or the
\* connection fails
SrcClose(e) ==
    /\ exited = "no" /\ connOpen /\ srcErr = "none"
    /\ arrived = Len(input)
    /\ srcErr' = e
    /\ UNCHANGED <<input, arrived, filled, rd, fills, pc, p, n, cap, retN, retErr,
                   retLine, srcFails, out, copyDone>>
    /\ UNCHANGED mainVars

\* a read of the source fails for now, with bytes of the stream still to come
SrcTimeout ==
    /\ exited = "no" /\ connOpen /\ srcErr = "none"
    /\ srcErr' = ErrTimeout
    /\ UNCHANGED <<input, arrived, filled, rd, fills, pc, p, n, cap, retN, retErr,
                   retLine, srcFails, out, copyDone>>
    /\ UNCHANGED mainVars

\* a caller that calls Read again on the same TelnetReader after that error:
\* the TelnetReader holds the bufio.Reader and nothing else, bufio has
\* forgotten the error, and Read starts at the top of its loop
ReadAgain(c) ==
    /\ exited = "no" /\ pc = "copy" /\ copyDone
    /\ retErr = ErrTimeout /\ srcErr = ErrTimeout
    /\ srcErr' = "none" /\ copyDone' = FALSE
    /\ cap' = c /\ n' = 0 /\ p' = <<>> /\ srcFails' = 0
    /\ pc' = "L178"
    /\ UNCHANGED <<input, arrived, filled, rd, fills, retN, retErr, retLine, out>>
    /\ UNCHANGED mainVars

(* ---- main() (main.go 42-106) ---- *)

\* conn.Close(): reads of the connection fail from now on, and what the
\* socket held is gone
CloseConn ==
    /\ connOpen' = FALSE
    /\ connCloses' = connCloses + 1
    /\ srcErr' = ErrClosed
    /\ arrived' = filled

\* lines 44, 134-138: parseArgs; without a host, usage and os.Exit(1)
ParseArgs(hostGiven) ==
    /\ exited = "no" /\ pcMain = "parseArgs"
    /\ IF hostGiven
       THEN pcMain' = "dial" /\ UNCHANGED exited
       ELSE exited' = "usage" /\ UNCHANGED pcMain
    /\ UNCHANGED readerVars
    /\ UNCHANGED <<pcB, pcSig, errChan, connOpen, rawMode, restores,
                   connCloses, logOpen, logCloses>>

\* lines 51-55: net.DialTimeout; log.Fatalf on failure, else defer conn.Close()
Dial(ok) ==
    /\ exited = "no" /\ pcMain = "dial"
    /\ IF ok
       THEN connOpen' = TRUE /\ pcMain' = "makeRaw" /\ UNCHANGED exited
       ELSE exited' = "fatal" /\ UNCHANGED <<connOpen, pcMain>>
    /\ UNCHANGED readerVars
    /\ UNCHANGED <<pcB, pcSig, errChan, rawMode, restores, connCloses,
                   logOpen, logCloses>>

\* lines 58-64: term.MakeRaw; log.Fatalf on failure, else defer term.Restore
MakeRaw(ok) ==
    /\ exited = "no" /\ pcMain = "makeRaw"
    /\ IF ok
       THEN rawMode' = TRUE /\ pcMain' = "openLog" /\ UNCHANGED exited
       ELSE exited' = "fatal" /\ UNCHANGED <<rawMode, pcMain>>
    /\ UNCHANGED readerVars
    /\ UNCHANGED <<pcB, pcSig, errChan, connOpen, restores, connCloses,
                   logOpen, logCloses>>

\* lines 68-82: the banner, then the log file when one is asked for and can
\* be opened (defer f.Close())
OpenLog(opened) ==
    /\ exited = "no" /\ pcMain = "openLog"
    /\ logOpen' = opened
    /\ pcMain' = "handleSignals"
    /\ UNCHANGED readerVars
    /\ UNCHANGED <<pcB, pcSig, errChan, connOpen, rawMode, restores,
                   connCloses, logCloses, exited>>

\* lines 85, 155-163: handleSignals starts the goroutine that waits on c
HandleSignals ==
    /\ exited = "no" /\ pcMain = "handleSignals"
    /\ pcSig' = "wait"
    /\ pcMain' = "startPumps"
    /\ UNCHANGED readerVars
    /\ UNCHANGED <<pcB, errChan, connOpen, rawMode, restores, connCloses,
                   logOpen, logCloses, exited>>

\* lines 88-101: errChan and the two goroutines
StartPumps ==
    /\ exited = "no" /\ pcMain = "startPumps"
    /\ errChan' = 0
    /\ pc' = "copy" /\ pcB' = "copy"
    /\ pcMain' = "wait"
    /\ UNCHANGED <<input, arrived, srcErr, filled, rd, fills, p, n, cap,
                   retN, retErr, retLine, srcFails, out, copyDone>>
    /\ UNCHANGED <<pcSig, connOpen, rawMode, restores, connCloses, logOpen,
                   logCloses, exited>>

\* line 94: errChan <- err, after io.Copy of pump A has returned
SendA ==
    /\ exited = "no" /\ pc = "copy" /\ copyDone
    /\ errChan < 1
    /\ errChan' = errChan + 1
    /\ pc' = "end"
    /\ UNCHANGED <<input, arrived, srcErr, filled, rd, fills, p, n, cap,
                   retN, retErr, retLine, srcFails, out, copyDone>>
    /\ UNCHANGED <<pcMain, pcB, pcSig, connOpen, rawMode, restores,
                   connCloses, logOpen, logCloses, exited>>

\* line 99: io.Copy(conn, os.Stdin) returns: the keyboard has ended or a
\* write to the connection has failed
KeyboardEnds ==
    /\ exited = "no" /\ pcB = "copy"
    /\ pcB' = "send"
    /\ UNCHANGED readerVars
    /\ UNCHANGED <<pcMain, pcSig, errChan, connOpen, rawMode, restores,
                   connCloses, logOpen, logCloses, exited>>

\* a pump B that also closes the connection once its copy has returned
SendB_ClosesConn ==
    /\ exited = "no" /\ pcB = "send"
    /\ errChan < 1
    /\ errChan' = errChan + 1
    /\ pcB' = "end"
    /\ CloseConn
    /\ UNCHANGED <<input, filled, rd, fills, pc, p, n, cap, retN, retErr,
                   retLine, srcFails, out, copyDone>>
    /\ UNCHANGED <<pcMain, pcSig, rawMode, restores, logOpen, logCloses, exited>>

\* line 100: errChan <- err
SendB ==
    /\ exited = "no" /\ pcB = "send"
    /\ errChan < 1
    /\ errChan' = errChan + 1
    /\ pcB' = "end"
    /\ UNCHANGED readerVars
    /\ UNCHANGED <<pcMain, pcSig, connOpen, rawMode, restores, connCloses,
                   logOpen, logCloses, exited>>

\* a main that takes a result only once both pumps have finished
MainReceive_JoinsBoth ==
    /\ exited = "no" /\ pcMain = "wait"
    /\ errChan > 0 /\ pc = "end" /\ pcB = "end"
    /\ errChan' = errChan - 1
    /\ pcMain' = "deferLog"
    /\ UNCHANGED readerVars
    /\ UNCHANGED <<pcB, pcSig, connOpen, rawMode, restores, connCloses,
                   logOpen, logCloses, exited>>

\* line 104: <-errChan
MainReceive ==
    /\ exited = "no" /\ pcMain = "wait"
    /\ errChan > 0
    /\ errChan' = errChan - 1
    /\ pcMain' = "deferLog"
    /\ UNCHANGED readerVars
    /\ UNCHANGED <<pcB, pcSig, connOpen, rawMode, restores, connCloses,
                   logOpen, logCloses, exited>>

\* lines 105-106, then the deferred f.Close() of line 77 when it was deferred
DeferLogClose ==
    /\ exited = "no" /\ pcMain = "deferLog"
    /\ IF logOpen
       THEN logOpen' = FALSE /\ logCloses' = logCloses + 1
       ELSE UNCHANGED <<logOpen, logCloses>>
    /\ pcMain' = "deferRestore"
    /\ UNCHANGED readerVars
    /\ UNCHANGED <<pcB, pcSig, errChan, connOpen, rawMode, restores,
                   connCloses, exited>>

\* the deferred term.Restore(fd, oldState) of line 64
DeferRestore ==
    /\ exited = "no" /\ pcMain = "deferRestore"
    /\ rawMode' = FALSE
    /\ restores' = restores + 1
    /\ pcMain' = "deferClose"
    /\ UNCHANGED readerVars
    /\ UNCHANGED <<pcB, pcSig, errChan, connOpen, connCloses, logOpen,
                   logCloses, exited>>

\* the deferred conn.Close() of line 55; main returns and the process exits
DeferConnClose ==
    /\ exited = "no" /\ pcMain = "deferClose"
    /\ CloseConn
    /\ exited' = "return"
    /\ pcMain' = "end"
    /\ UNCHANGED <<input, filled, rd, fills, pc, p, n, cap, retN, retErr,
                   retLine, srcFails, out, copyDone>>
    /\ UNCHANGED <<pcB, pcSig, errChan, rawMode, restores, logOpen, logCloses>>

(* ---- the goroutine of handleSignals (main.go 158-162) ---- *)

\* line 159: <-c, an interrupt or termination signal has been delivered
SignalArrives ==
    /\ exited = "no" /\ pcSig = "wait"
    /\ pcSig' = "close"
    /\ UNCHANGED readerVars
    /\ UNCHANGED <<pcMain, pcB, errChan, connOpen, rawMode, restores,
                   connCloses, logOpen, logCloses, exited>>

\* line 160: conn.Close()
SignalClose ==
    /\ exited = "no" /\ pcSig = "close"
    /\ CloseConn
    /\ pcSig' = "exit"
    /\ UNCHANGED <<input, filled, rd, fills, pc, p, n, cap, retN, retErr,
                   retLine, srcFails, out, copyDone>>
    /\ UNCHANGED <<pcMain, pcB, errChan, rawMode, restores, logOpen,
                   logCloses, exited>>

\* line 161: os.Exit(0); deferred calls of main do not run
SignalExit ==
    /\ exited = "no" /\ pcSig = "exit"
    /\ exited' = "signal"
    /\ pcSig' = "end"
    /\ UNCHANGED readerVars
    /\ UNCHANGED <<pcMain, pcB, errChan, connOpen, rawMode, restores,
                   connCloses, logOpen, logCloses>>


InitReader ==
    /\ input \in SeqsUpTo(MaxLen) \cup Streams
    /\ arrived = 0 /\ srcErr = "none"
    /\ filled = 0 /\ rd = 0 /\ fills = 0
    /\ pc = "copy" /\ p = <<>> /\ n = 0 /\ cap = 1
    /\ retN = 0 /\ retErr = "nil" /\ retLine = 0 /\ srcFails = 0
    /\ out = <<>> /\ copyDone = FALSE

\* the process in its streaming phase: raw mode on, both pumps started
InitStreaming ==
    /\ pcMain = "wait" /\ pcB = "copy" /\ pcSig = "wait"
    /\ errChan = 0 /\ connOpen = TRUE /\ rawMode = TRUE
    /\ restores = 0 /\ connCloses = 0
    /\ logOpen = FALSE /\ logCloses = 0
    /\ exited = "no"

Init == InitReader /\ InitStreaming

Next ==
    \/ \E k \in 1..MaxLen : Deliver(k)
    \/ \E e \in SrcErrors : SrcClose(e)
    \/ \E c \in 1..MaxCap : CallRead(c)
    \/ ReadL178
    \/ ReadL184
    \/ ReadL193
    \/ ReadL199
    \/ ReadL204

Spec == Init /\ [][Next]_vars

\* the TelnetReader under a caller that goes on after a timeout
NextReuse ==
    \/ \E k \in 1..MaxLen : Deliver(k)
    \/ \E e \in SrcErrors : SrcClose(e)
    \/ \E c \in 1..MaxCap : CallRead(c)
    \/ ReadL178
    \/ ReadL184
    \/ ReadL193
    \/ ReadL199
    \/ ReadL204
    \/ SrcTimeout
    \/ \E c \in 1..MaxCap : ReadAgain(c)

SpecReuse == Init /\ [][NextReuse]_vars

\* the streaming phase over the streams made of one control sequence
InitSeq ==
    /\ input \in SeqInputs
    /\ arrived = 0 /\ srcErr = "none"
    /\ filled = 0 /\ rd = 0 /\ fills = 0
    /\ pc = "copy" /\ p = <<>> /\ n = 0 /\ cap = 1
    /\ retN = 0 /\ retErr = "nil" /\ retLine = 0 /\ srcFails = 0
    /\ out = <<>> /\ copyDone = FALSE
    /\ InitStreaming

SpecSeq == InitSeq /\ [][Next]_vars

\* the process from its start
InitMain ==
    /\ input \in MainInputs
    /\ arrived = 0 /\ srcErr = "none"
    /\ filled = 0 /\ rd = 0 /\ fills = 0
    /\ pc = "notStarted" /\ p = <<>> /\ n = 0 /\ cap = 1
    /\ retN = 0 /\ retErr = "nil" /\ retLine = 0 /\ srcFails = 0
    /\ out = <<>> /\ copyDone = FALSE
    /\ pcMain = "parseArgs" /\ pcB = "notStarted" /\ pcSig = "notStarted"
    /\ errChan = 0 /\ connOpen = FALSE /\ rawMode = FALSE
    /\ restores = 0 /\ connCloses = 0
    /\ logOpen = FALSE /\ logCloses = 0
    /\ exited = "no"

NextMain ==
    \/ \E k \in 1..MaxLen : Deliver(k)
    \/ \E e \in SrcErrors : SrcClose(e)
    \/ \E c \in 1..MaxCap : CallRead(c)
    \/ ReadL178
    \/ ReadL184
    \/ ReadL193
    \/ ReadL199
    \/ ReadL204
    \/ \E hostGiven \in BOOLEAN : ParseArgs(hostGiven)
    \/ \E ok \in BOOLEAN : Dial(ok)
    \/ \E ok \in BOOLEAN : MakeRaw(ok)
    \/ \E opened \in BOOLEAN : OpenLog(opened)
    \/ HandleSignals
    \/ StartPumps
    \/ SendA
    \/ KeyboardEnds
    \/ SendB
    \/ MainReceive
    \/ DeferLogClose
    \/ DeferRestore
    \/ DeferConnClose
    \/ SignalArrives
    \/ SignalClose
    \/ SignalExit

SpecMain == InitMain /\ [][NextMain]_vars

\* the goroutines of main and of the two pumps are scheduled: a send on
\* errChan, the receive of line 104 and the deferred calls are taken when
\* they stay possible.  The peer, the keyboard and the signal are not
\* obliged to do anything.
SpecMainFair ==
    /\ InitMain /\ [][NextMain]_vars
    /\ WF_vars(SendA) /\ WF_vars(SendB) /\ WF_vars(MainReceive)
    /\ WF_vars(DeferLogClose) /\ WF_vars(DeferRestore)
    /\ WF_vars(DeferConnClose)

TypeOK ==
    /\ rd <= filled /\ filled <= arrived /\ arrived <= Len(input)
    /\ n <= cap

(* ---- reference decoding of a raw stream ---- *)

IsPrefix(a, b) == Len(a) <= Len(b) /\ SubSeq(b, 1, Len(a)) = a

\* The end of the subnegotiation whose body starts at s[j]: the index of the
\* SE of the first IAC SE pair met when scanning pair-wise (an IAC takes the
\* byte after it with it), or 0 when the stream ends first.
RECURSIVE SubnegEnd(_, _)
SubnegEnd(s, j) ==
    IF j > Len(s) THEN 0
    ELSE IF s[j] # IAC THEN SubnegEnd(s, j + 1)
    ELSE IF j + 1 > Len(s) THEN 0
    ELSE IF s[j + 1] = SE THEN j + 1
    ELSE SubnegEnd(s, j + 2)

\* The decoding of s from index i on: dec is the text, complete tells whether
\* every control sequence of s is complete (a truncated one yields nothing).
RECURSIVE RefFrom(_, _)
RefFrom(s, i) ==
    IF i > Len(s) THEN [dec |-> <<>>, complete |-> TRUE]
    ELSE IF s[i] # IAC
    THEN LET r == RefFrom(s, i + 1)
         IN [dec |-> <<s[i]>> \o r.dec, complete |-> r.complete]
    ELSE IF i + 1 > Len(s) THEN [dec |-> <<>>, complete |-> FALSE]
    ELSE IF s[i + 1] = IAC
    THEN LET r == RefFrom(s, i + 2)
         IN [dec |-> <<255>> \o r.dec, complete |-> r.complete]
    ELSE IF s[i + 1] \in {DO, DONT, WILL, WONT}
    THEN IF i + 2 > Len(s) THEN [dec |-> <<>>, complete |-> FALSE]
         ELSE RefFrom(s, i + 3)
    ELSE IF s[i + 1] = SB
    THEN LET e == SubnegEnd(s, i + 2)
         IN IF e = 0 THEN [dec |-> <<>>, complete |-> FALSE]
            ELSE RefFrom(s, e + 1)
    ELSE RefFrom(s, i + 2)

RefDecode(s) == RefFrom(s, 1).dec
Complete(s) == RefFrom(s, 1).complete
NoIAC(s) == \A i \in 1..Len(s) : s[i] # IAC

\* what Read has decoded so far: written by io.Copy, or still in p[0..n)
Decoded == out \o SubSeq(p, 1, n)

ReadSites == {"L178", "L184", "L193", "L199", "L204"}

(* ---- C1 ---- *)
\* C1: for a stream whose control sequences are all complete, the bytes the
\* Read calls return, up to and including the call that returns the first
\* error, are the reference decoding of the stream: at every moment a prefix
\* of it, and all of it once the error has been returned.
C1_DecodesToReference ==
    Complete(input) =>
        /\ IsPrefix(Decoded, RefDecode(input))
        /\ copyDone => out = RefDecode(input)

\* the end-to-end scenario has been decoded to the end of the stream
C1_Witness ==
    /\ copyDone /\ retErr = "EOF"
    /\ input = <<72, IAC, WILL, 1, 32, IAC, IAC, 33>>
    /\ out = <<72, 32, 255, 33>>

(* ---- C7 ---- *)
\* C7: a Read call with len(p) >= 1 that returns n = 0 returns an error.
C7_ZeroOnlyOnFailure ==
    (retLine # 0 /\ retN = 0) => retErr # "nil"

\* a stream of control sequences only was consumed, and Read returned 0, err
C7_Witness ==
    /\ retLine = 180 /\ retN = 0 /\ retErr = "EOF"
    /\ rd >= 3 /\ out = <<>>

(* ---- C10 ---- *)
\* C10: for a stream without byte 255 the output is the input: a prefix of
\* it at every moment, and all of it when the source has ended.
C10_Passthrough ==
    NoIAC(input) =>
        /\ IsPrefix(Decoded, input)
        /\ copyDone => out = input

\* a stream with ESC and command-valued bytes, and no IAC, went through whole
C10_Witness ==
    /\ copyDone /\ NoIAC(input) /\ Len(input) >= 3
    /\ \E i, j \in 1..Len(input) : input[i] = 27 /\ input[j] = DO
    /\ out = input

(* ---- Read as a function: one call, the whole stream in one chunk ---- *)

\* lines 198-212 over the buffered stream s from index j: the index of the
\* byte after the subnegotiation, or 0 when a ReadByte fails first
RECURSIVE SbLoop(_, _)
SbLoop(s, j) ==
    IF j > Len(s) THEN 0                         \* line 199 fails
    ELSE IF ~IsIAC(s[j]) THEN SbLoop(s, j + 1)
    ELSE IF j + 1 > Len(s) THEN 0                \* line 204 fails
    ELSE IF s[j + 1] = SE THEN j + 2             \* break
    ELSE SbLoop(s, j + 2)

\* lines 177-225 with i - 1 bytes of s consumed and acc = p[0..n): the bytes
\* the call returns; len(p) is larger than the stream, the source is at its
\* end after s
RECURSIVE ReadLoop(_, _, _)
ReadLoop(s, i, acc) ==
    LET After(k, a) ==      \* lines 221-224, k - 1 bytes consumed
            IF FlushCheck(Len(s) - (k - 1), Len(a)) THEN a
            ELSE ReadLoop(s, k, a)
    IN  IF i > Len(s) THEN acc                               \* line 180
        ELSE IF ~IsIAC(s[i]) THEN After(i + 1, Append(acc, s[i]))
        ELSE IF i + 1 > Len(s) THEN acc                      \* line 186
        ELSE IF s[i + 1] = IAC THEN After(i + 2, Append(acc, IAC))
        ELSE IF IsNegotiation(s[i + 1])
        THEN IF i + 2 > Len(s) THEN acc                      \* line 195
             ELSE After(i + 3, acc)
        ELSE IF s[i + 1] = SB
        THEN LET e == SbLoop(s, i + 2)
             IN IF e = 0 THEN acc                            \* lines 201, 206
                ELSE After(e, acc)
        ELSE ReadLoop(s, i + 2, acc)                         \* continue

ReadWhole(s) == ReadLoop(s, 1, <<>>)

(* ---- C2 ---- *)
\* C2: however the stream is cut into chunks and whatever len(p) each Read
\* call gets, the bytes the calls return are those one Read call with a large
\* p returns when the whole stream arrives in one chunk: a prefix of them at
\* every moment, all of them once the source has ended.
C2_SplitReadResilience ==
    /\ IsPrefix(Decoded, ReadWhole(input))
    /\ copyDone => out = ReadWhole(input)

\* every byte of the subnegotiation example and of its terminator came in a
\* chunk of its own
C2_Witness ==
    /\ copyDone /\ input = <<IAC, SB, 24, 0, IAC, SE, 89>>
    /\ fills = 7 /\ retLine = 180 /\ out = <<89>>

(* ---- C3 ---- *)
\* C3: Read never stands at a read of the source that has nothing to give
\* (nothing buffered, nothing in the socket) while it holds bytes it has
\* emitted and not returned.
C3_FlushRule ==
    ~(pc \in ReadSites /\ n > 0 /\ rd = arrived)

(* ---- C4 ---- *)
\* C4: when one text byte is all the source has and Read, called with
\* len(p) > 1 and nothing emitted yet, reads it, that step returns 1, nil.
C4_EarlyFlush ==
    [][(/\ pc = "L178" /\ n = 0 /\ cap > 1
        /\ rd = filled /\ arrived = rd + 1 /\ srcErr = "none"
        /\ input[rd + 1] # IAC
        /\ rd' = rd + 1)
       => (pc' = "copy" /\ retN' = 1 /\ retErr' = "nil" /\ retLine' = 225)]_vars

\* the first byte arrived alone, a Read with len(p) = 2 returned it, and the
\* source has given nothing more
C4_Witness ==
    /\ pc = "copy" /\ cap = 2 /\ retLine = 225 /\ retN = 1 /\ retErr = "nil"
    /\ arrived = 1 /\ rd = 1 /\ fills = 1 /\ srcErr = "none"
    /\ Len(input) > 1 /\ out = <<input[1]>>

(* ---- C6 ---- *)
\* C6: every return of Read is either n > 0 with a nil error or n = 0 with
\* an error.
C6_OutputXorError ==
    retLine # 0 => \/ retN > 0 /\ retErr = "nil"
                   \/ retN = 0 /\ retErr # "nil"

(* ---- C8 ---- *)
\* C8: a failed read of the source ends the call: at most one read fails in
\* a call, and the call has then returned the error of the source.
C8_ErrorPropagation ==
    /\ srcFails <= 1
    /\ srcFails = 1 => (pc = "copy" /\ copyDone /\ retErr = srcErr)

\* the connection failed inside a subnegotiation and Read returned that error
C8_Witness ==
    /\ srcFails = 1 /\ retErr = "ECONNRESET" /\ retLine = 206

(* ---- C9 ---- *)
\* C9: when the stream ends inside a control sequence, Read returns the read
\* error, and all that was ever returned is the decoding of the stream
\* before that sequence.
C9_TruncatedNotEmitted ==
    retLine \in {186, 195, 201, 206} =>
        /\ retErr # "nil" /\ retErr = srcErr
        /\ ~Complete(input)
        /\ out = RefDecode(input)

\* the stream ended after IAC DO, with text before it
C9_Witness ==
    /\ retLine = 195 /\ retErr = "EOF"
    /\ input = <<27, IAC, DO>> /\ out = <<27>>

(* ---- C5 ---- *)
\* C5: whenever the process has exited, the terminal is not left in raw
\* mode: if raw mode was enabled, the saved state has been restored.
C5_TerminalRestored ==
    exited # "no" => ~rawMode

(* ---- C11 ---- *)
\* Read stands at the top of its loop with nothing emitted in this call
Idle == pc = "L178" /\ n = 0

IsNegInput == Len(input) = 4 /\ input[1] = IAC
              /\ input[2] \in {DO, DONT, WILL, WONT}

\* C11: on IAC <verb> <opt> X nothing is emitted while the three bytes of
\* the negotiation are consumed, whatever the option byte is; after them
\* Read stands at line 178 with nothing pending, and X is decoded from
\* there: emitted when it is not IAC, taken as the start of a command when
\* it is.
C11_NegotiationStripping ==
    IsNegInput =>
        /\ rd <= 3 => Decoded = <<>>
        /\ rd = 3 => Idle
        /\ (rd = 4 /\ input[4] # IAC) => Decoded = <<input[4]>>
        /\ (rd = 4 /\ input[4] = IAC) =>
               (Decoded = <<>> /\ (pc = "L184" \/ retLine = 186))

\* IAC WONT IAC 'A' has been read to its end: the option byte 255 was
\* discarded and 'A' came out
C11_Witness ==
    /\ input = <<IAC, WONT, IAC, 65>>
    /\ copyDone /\ out = <<65>>

(* ---- C12 ---- *)
IsSubInput ==
    /\ Len(input) >= 5 /\ input[1] = IAC /\ input[2] = SB
    /\ \A i \in 3..(Len(input) - 3) : input[i] # IAC
    /\ input[Len(input) - 2] = IAC /\ input[Len(input) - 1] = SE

\* C12: on IAC SB <payload> IAC SE Y with no IAC in the payload, of any
\* length from zero, nothing is emitted up to and including the SE; Read is
\* inside the subnegotiation loop until the SE is consumed, stands at line
\* 178 with nothing pending after it, and Y is decoded from there.
C12_SubnegotiationStripping ==
    IsSubInput =>
        LET L == Len(input)
        IN /\ rd <= L - 1 => Decoded = <<>>
           /\ (2 <= rd /\ rd < L - 1) => pc \in {"L199", "L204"}
           /\ rd = L - 1 => Idle
           /\ (rd = L /\ input[L] # IAC) => Decoded = <<input[L]>>
           /\ (rd = L /\ input[L] = IAC) =>
                  (Decoded = <<>> /\ (pc = "L184" \/ retLine = 186))

\* a subnegotiation with an empty payload, then 'Y', read to the end
C12_Witness ==
    /\ input = <<IAC, SB, IAC, SE, 89>>
    /\ copyDone /\ out = <<89>>

(* ---- C13 ---- *)
IsEscInput ==
    /\ Len(input) >= 2
    /\ \A i \in 1..(2 * (Len(input) \div 2)) : input[i] = IAC
    /\ Len(input) % 2 = 1 => input[Len(input)] # IAC

\* C13: on k pairs IAC IAC, with or without a text byte after them, the
\* bytes decoded after 2j raw bytes are j bytes 255; after each pair Read is
\* at line 178 or has returned, inside a pair it is at line 184, and the
\* byte after the pairs is emitted after them.
C13_EscapeRoundTrip ==
    IsEscInput =>
        LET K == Len(input) \div 2
        IN /\ rd <= 2 * K => Decoded = [i \in 1..(rd \div 2) |-> 255]
           /\ (rd <= 2 * K /\ rd % 2 = 0) => pc \in {"L178", "copy"}
           /\ (rd < 2 * K /\ rd % 2 = 1) => pc = "L184"
           /\ rd = 2 * K + 1 =>
                  Decoded = [i \in 1..K |-> 255] \o <<input[Len(input)]>>

\* two pairs and 'A' have been read to the end
C13_Witness ==
    /\ input = <<IAC, IAC, IAC, IAC, 65>>
    /\ copyDone /\ out = <<255, 255, 65>>

(* ---- C14 ---- *)
IsUnkInput ==
    /\ Len(input) = 3 /\ input[1] = IAC
    /\ input[2] \notin {DO, DONT, WILL, WONT, SB, IAC}

\* C14: on IAC c X with c none of DO, DONT, WILL, WONT, SB, IAC nothing is
\* emitted for IAC c, Read stands at line 178 with nothing pending after
\* these two bytes, and X is decoded from there.
C14_UnknownCommand ==
    IsUnkInput =>
        /\ rd <= 2 => Decoded = <<>>
        /\ rd = 2 => Idle
        /\ (rd = 3 /\ input[3] # IAC) => Decoded = <<input[3]>>
        /\ (rd = 3 /\ input[3] = IAC) =>
               (Decoded = <<>> /\ (pc = "L184" \/ retLine = 186))

\* IAC SE outside a subnegotiation, then 'A', read to the end
C14_Witness ==
    /\ input = <<IAC, SE, 65>>
    /\ copyDone /\ out = <<65>>

(* ---- C16 ---- *)
IsTermInput == Len(input) >= 2 /\ input[1] = IAC /\ input[2] = SB

\* C16: after IAC SB the subnegotiation ends at the SE of the first IAC SE
\* pair found when an IAC takes the byte after it with it, and nowhere
\* else: nothing is emitted up to that SE, Read is inside the loop of lines
\* 198-212 before it and at line 178 after it, and what follows is decoded
\* as a stream of its own; without such a pair nothing is ever emitted.
C16_TerminatorExactness ==
    IsTermInput =>
        LET e == SubnegEnd(input, 3)
            rest == RefDecode(SubSeq(input, e + 1, Len(input)))
        IN IF e = 0
           THEN /\ Decoded = <<>>
                /\ rd >= 2 => pc \in {"L199", "L204", "copy"}
           ELSE /\ rd <= e => Decoded = <<>>
                /\ (2 <= rd /\ rd < e) => pc \in {"L199", "L204"}
                /\ rd = e => (Idle \/ pc = "copy")
                /\ IsPrefix(Decoded, rest)
                /\ copyDone => out = rest

\* IAC SB IAC IAC SE 'A' IAC SE 'B': only 'B' came out
C16_Witness ==
    /\ input = <<IAC, SB, IAC, IAC, SE, 65, IAC, SE, 66>>
    /\ copyDone /\ out = <<66>>

(* ---- C19 ---- *)
\* C19: whenever Read has returned a nil error, the raw bytes consumed so
\* far are a whole number of control sequences and text bytes: the return
\* is never between an IAC and the end of the sequence it starts.
C19_SequenceBoundary ==
    retLine = 225 => Complete(SubSeq(input, 1, rd))

\* in the end-to-end scenario, all in one chunk and read with len(p) = 1,
\* Read returned the escaped 255 because p was full, '!' still buffered
C19_Witness ==
    /\ input = <<72, IAC, WILL, 1, 32, IAC, IAC, 33>>
    /\ retLine = 225 /\ retErr = "nil" /\ retN = cap
    /\ rd = 7 /\ Buffered = 1 /\ out = <<72, 32, 255>>

(* ---- C20 ---- *)
\* C20: a step in which a read of the source fails while Read holds k >= 1
\* emitted bytes returns n = k with the error of the source, and io.Copy
\* writes exactly p[0..k) before it stops.
C20_NoByteLostOnFailure ==
    [][(pc \in ReadSites /\ n >= 1 /\ copyDone')
       => (/\ retN' = n /\ retErr' = srcErr
           /\ out' = out \o SubSeq(p, 1, n))]_vars

\* the connection failed inside a subnegotiation after one text byte: the
\* call returned 1 and the error, and the byte was written
C20_Witness ==
    /\ input = <<27, IAC, SB>> /\ copyDone
    /\ retLine = 201 /\ retN = 1 /\ retErr = "ECONNRESET"
    /\ out = <<27>>

(* ---- C15 ---- *)
\* io.Copy of pump A, resp. of pump B, has returned and its result is not
\* sent yet
PumpAEnded == pc = "copy" /\ copyDone
PumpBEnded == pcB = "send"

\* C15: the pump that finishes first finds room in errChan (its send does
\* not block), and once a pump has finished the process terminates, whether
\* or not the other pump ever finishes.
C15_SessionTermination ==
    /\ []((PumpAEnded /\ pcB # "end") => errChan < 1)
    /\ []((PumpBEnded /\ pc # "end") => errChan < 1)
    /\ ((pcMain = "wait" /\ (PumpAEnded \/ PumpBEnded)) ~> (exited # "no"))

\* main has returned after the result of pump A while pump B is still
\* copying and no signal has been delivered
C15_Witness ==
    /\ exited = "return" /\ pc = "end" /\ pcB = "copy" /\ pcSig = "wait"
    /\ errChan = 0

(* ---- C18 ---- *)
\* C18: when main has returned and no signal was delivered, the terminal has
\* been restored once, the connection closed once, and the log file, when
\* one was opened, closed once.
C18_CleanupExactlyOnce ==
    (exited = "return" /\ pcSig = "wait")
        => /\ restores = 1 /\ ~rawMode
           /\ connCloses = 1 /\ ~connOpen
           /\ logCloses <= 1 /\ ~logOpen

\* pump B ended first, pump A ended later and found no room in errChan; main
\* returned having closed the log file it had opened
C18_Witness ==
    /\ exited = "return" /\ pcSig = "wait"
    /\ pcB = "end" /\ PumpAEnded /\ errChan = 0
    /\ logCloses = 1 /\ restores = 1 /\ connCloses = 1

====
